---- MODULE Spec2Model ----
(***************************************************************************)
(* The Live Assistant Session of goal-forge-ai: the useGeminiLive hook     *)
(* (src/hooks/useGeminiLive.ts) together with the part of the AIAssistant  *)
(* component (src/components/AIAssistant.tsx) that feeds it and consumes   *)
(* its transcripts and tool calls.                                         *)
(*                                                                         *)
(* Every routine of the source is an operator from a snapshot of the       *)
(* program state (a record, W) to the snapshot after the routine has run,  *)
(* named as in the source; an action applies the routines of one event-    *)
(* loop task to W and commits the result.  Promise callbacks (.then) are   *)
(* queued in `microtasks` and run to completion before the next task.      *)
(* React state that a later render consumes (project, the transcripts) is  *)
(* kept together with what the last commit saw, so that batching of        *)
(* several setState calls before one render is part of the model.          *)
(***************************************************************************)
EXTENDS Integers, Sequences, FiniteSets, TLC

VARIABLES
    \* ---- useGeminiLive: useState
    connectionState,        \* 'idle' | 'connecting' | 'error'
    isListening,
    userTranscript,
    aiTranscript,
    \* ---- useGeminiLive: useRef
    sessionPromiseRef,      \* 0 = null, else the connection attempt it holds
    audioContextRef,        \* 0 = null, else the input AudioContext
    mediaStreamRef,         \* 0 = null, else the MediaStream
    scriptProcessorRef,     \* 0 = null, else the ScriptProcessorNode
    outputAudioContextRef,  \* 0 = null, else the output AudioContext
    nextAudioTimeRef,
    audioSourcesRef,        \* set of scheduled AudioBufferSourceNodes
    \* ---- platform objects the refs point to
    sessState,              \* per connection attempt: none|pending|open|closed|rejected
    sessThens,              \* callbacks waiting on a pending session promise
    sessProject,            \* the project captured by the attempt's handlers
    oncloseDue,             \* sessions whose close event has not been delivered
    microtasks,             \* .then callbacks of resolved promises, in order
    decodes,                \* processMessage calls suspended in decodeAudioData
    micPending,             \* startListening calls suspended in getUserMedia
    inCtxOpen, inCtxCount,  \* input AudioContexts not closed / created so far
    outCtxOpen, outCtxCount,\* output AudioContexts not closed / created so far
    liveStreams, streamCount,     \* MediaStreams whose tracks run / created
    connectedNodes, nodeCount,    \* ScriptProcessorNodes connected / created
    stoppedSources, srcCount,     \* sources stop() was called on / created
    endedSources,           \* sources that played to their end
    nCallbacks,             \* onaudioprocess events delivered so far
    now,                    \* currentTime of the output AudioContext
    \* ---- AIAssistant: useState and storage
    project,
    projectDirty,           \* setProject was called since the last commit
    rProject,               \* the project the last commit rendered
    rUser, rAi,             \* the transcripts the last commit rendered
    messages,
    error,
    store,                  \* the plan saved under the project's id
    uuidCount,              \* crypto.randomUUID() calls so far
    \* ---- what has left the hook, and what has entered it
    toolResponses,          \* sendToolResponse calls, in order
    chunksSent,             \* sendRealtimeInput calls, in order
    textsSent,              \* sendText calls, in order
    calls,                  \* function calls delivered so far, in order
    schedLog,               \* chunks scheduled since the last flush
    srcKey,                 \* per source created, the message that carried its chunk
    flushKey,               \* the last message whose interruption flag was processed
    lastOp,                 \* what the last step did
    nMsgs,                  \* inbound messages so far
    nNav,                   \* project selections and deselections so far
    run                     \* the run of same-stream fragments being received

vars == <<connectionState, isListening, userTranscript, aiTranscript,
          sessionPromiseRef, audioContextRef, mediaStreamRef, scriptProcessorRef,
          outputAudioContextRef, nextAudioTimeRef, audioSourcesRef,
          sessState, sessThens, sessProject, oncloseDue, microtasks, decodes,
          micPending, inCtxOpen, inCtxCount, outCtxOpen, outCtxCount,
          liveStreams, streamCount, connectedNodes, nodeCount,
          stoppedSources, srcCount, endedSources, nCallbacks, now,
          project, projectDirty, rProject, rUser, rAi, messages, error, store, uuidCount,
          toolResponses, chunksSent, textsSent, calls, schedLog, srcKey, flushKey,
          lastOp, nMsgs, nNav, run>>

-----------------------------------------------------------------------------
(* Bounds of the model *)

MaxSessions == 2
MaxMsgs == 3
MaxToolMsgs == 1
MaxBatch == 2
MaxClock == 3
MaxDur == 2
MaxListens == 2
MaxNav == 3
MaxStray == 2
MaxTexts == 2

Sessions == 1..MaxSessions

-----------------------------------------------------------------------------
(* The snapshot of the program state and its commit *)

W ==
    [connectionState |-> connectionState, isListening |-> isListening,
     userTranscript |-> userTranscript, aiTranscript |-> aiTranscript,
     sessionPromiseRef |-> sessionPromiseRef, audioContextRef |-> audioContextRef,
     mediaStreamRef |-> mediaStreamRef, scriptProcessorRef |-> scriptProcessorRef,
     outputAudioContextRef |-> outputAudioContextRef,
     nextAudioTimeRef |-> nextAudioTimeRef, audioSourcesRef |-> audioSourcesRef,
     sessState |-> sessState, sessThens |-> sessThens, sessProject |-> sessProject,
     oncloseDue |-> oncloseDue, microtasks |-> microtasks, decodes |-> decodes,
     micPending |-> micPending, inCtxOpen |-> inCtxOpen, inCtxCount |-> inCtxCount,
     outCtxOpen |-> outCtxOpen, outCtxCount |-> outCtxCount,
     liveStreams |-> liveStreams, streamCount |-> streamCount,
     connectedNodes |-> connectedNodes, nodeCount |-> nodeCount,
     stoppedSources |-> stoppedSources, srcCount |-> srcCount,
     endedSources |-> endedSources, nCallbacks |-> nCallbacks, now |-> now,
     project |-> project, projectDirty |-> projectDirty, rProject |-> rProject, rUser |-> rUser, rAi |-> rAi,
     messages |-> messages, error |-> error, store |-> store, uuidCount |-> uuidCount,
     toolResponses |-> toolResponses, chunksSent |-> chunksSent,
     textsSent |-> textsSent, calls |-> calls, schedLog |-> schedLog,
     srcKey |-> srcKey, flushKey |-> flushKey,
     lastOp |-> lastOp, nMsgs |-> nMsgs, nNav |-> nNav, run |-> run]

Commit(w) ==
    /\ connectionState' = w.connectionState
    /\ isListening' = w.isListening
    /\ userTranscript' = w.userTranscript
    /\ aiTranscript' = w.aiTranscript
    /\ sessionPromiseRef' = w.sessionPromiseRef
    /\ audioContextRef' = w.audioContextRef
    /\ mediaStreamRef' = w.mediaStreamRef
    /\ scriptProcessorRef' = w.scriptProcessorRef
    /\ outputAudioContextRef' = w.outputAudioContextRef
    /\ nextAudioTimeRef' = w.nextAudioTimeRef
    /\ audioSourcesRef' = w.audioSourcesRef
    /\ sessState' = w.sessState
    /\ sessThens' = w.sessThens
    /\ sessProject' = w.sessProject
    /\ oncloseDue' = w.oncloseDue
    /\ microtasks' = w.microtasks
    /\ decodes' = w.decodes
    /\ micPending' = w.micPending
    /\ inCtxOpen' = w.inCtxOpen
    /\ inCtxCount' = w.inCtxCount
    /\ outCtxOpen' = w.outCtxOpen
    /\ outCtxCount' = w.outCtxCount
    /\ liveStreams' = w.liveStreams
    /\ streamCount' = w.streamCount
    /\ connectedNodes' = w.connectedNodes
    /\ nodeCount' = w.nodeCount
    /\ stoppedSources' = w.stoppedSources
    /\ srcCount' = w.srcCount
    /\ endedSources' = w.endedSources
    /\ nCallbacks' = w.nCallbacks
    /\ now' = w.now
    /\ project' = w.project
    /\ projectDirty' = w.projectDirty
    /\ rProject' = w.rProject
    /\ rUser' = w.rUser
    /\ rAi' = w.rAi
    /\ messages' = w.messages
    /\ error' = w.error
    /\ store' = w.store
    /\ uuidCount' = w.uuidCount
    /\ toolResponses' = w.toolResponses
    /\ chunksSent' = w.chunksSent
    /\ textsSent' = w.textsSent
    /\ calls' = w.calls
    /\ schedLog' = w.schedLog
    /\ srcKey' = w.srcKey
    /\ flushKey' = w.flushKey
    /\ lastOp' = w.lastOp
    /\ nMsgs' = w.nMsgs
    /\ nNav' = w.nNav
    /\ run' = w.run

-----------------------------------------------------------------------------
(* Values *)

\* The absent project (useState<Project | null>(null)).
NoProject == [present |-> FALSE, id |-> "", plan |-> <<>>]

Msg(sender, text, isFinal) == [sender |-> sender, text |-> text, isFinal |-> isFinal]

\* AIAssistant.tsx:229 and :224
WelcomeMsg == Msg("ai", "Welcome to GoalForge!", TRUE)
WelcomeBackMsg == Msg("ai", "Welcome back to your project", TRUE)

\* A callback handed to sessionPromiseRef.current.then(...), or the
\* continuation of `await sessionPromiseRef.current`.
Cb(kind, id, name, result) ==
    [kind |-> kind, sess |-> 0, id |-> id, name |-> name, result |-> result]

\* The plan of the project kept in storage when the component mounts.
StoredPlan ==
    << [id |-> "t1", title |-> "A", description |-> "dA", priority |-> "High",
        timeEstimate |-> "1h", status |-> "To Do",
        subtasks |-> << [id |-> "s1", text |-> "x", completed |-> FALSE],
                        [id |-> "s2", text |-> "y", completed |-> FALSE] >>],
       [id |-> "t2", title |-> "B", description |-> "dB", priority |-> "Low",
        timeEstimate |-> "2h", status |-> "In Progress",
        subtasks |-> << >>] >>

\* no run of fragments is being received
NoRun == [stream |-> "none", base |-> 0, text |-> ""]

LastOf(seq) == seq[Len(seq)]
ButLast(seq) == SubSeq(seq, 1, Len(seq) - 1)

-----------------------------------------------------------------------------
(* useGeminiLive: helpers *)

\* useGeminiLive.ts:120-123
resetTranscripts(w) == [w EXCEPT !.userTranscript = "", !.aiTranscript = ""]

\* AIAssistant.tsx:142-145 (the onError prop of the hook)
handleError(w, e) == [w EXCEPT !.error = e]

\* sessionPromiseRef.current?.then(cb): nothing when the ref is null; queued on
\* the promise while it is pending; a microtask once it is resolved (a closed
\* session leaves its promise resolved); dropped when it was rejected.
thenSession(w, cb) ==
    LET s == w.sessionPromiseRef
        c == [cb EXCEPT !.sess = s]
    IN  IF s = 0 THEN w
        ELSE IF w.sessState[s] = "pending"
             THEN [w EXCEPT !.sessThens[s] = Append(@, c)]
        ELSE IF w.sessState[s] \in {"open", "closed"}
             THEN [w EXCEPT !.microtasks = Append(@, c)]
        ELSE w

\* useGeminiLive.ts:125-143 without the stop and clear of the sources (:137-139)
cleanupAudio_KeepsSources(w) ==
    LET w1 == IF w.scriptProcessorRef # 0
              THEN [w EXCEPT !.connectedNodes = @ \ {w.scriptProcessorRef},
                             !.scriptProcessorRef = 0]
              ELSE w
        w2 == IF w1.mediaStreamRef # 0
              THEN [w1 EXCEPT !.liveStreams = @ \ {w1.mediaStreamRef},
                              !.mediaStreamRef = 0]
              ELSE w1
        w3 == IF w2.audioContextRef # 0 /\ w2.audioContextRef \in w2.inCtxOpen
              THEN [w2 EXCEPT !.inCtxOpen = @ \ {w2.audioContextRef}]
              ELSE w2
    IN  IF w3.outputAudioContextRef # 0 /\ w3.outputAudioContextRef \in w3.outCtxOpen
        THEN [w3 EXCEPT !.outCtxOpen = @ \ {w3.outputAudioContextRef}]
        ELSE w3

\* useGeminiLive.ts:125-143
cleanupAudio(w) ==
    LET w1 == IF w.scriptProcessorRef # 0
              THEN [w EXCEPT !.connectedNodes = @ \ {w.scriptProcessorRef},
                             !.scriptProcessorRef = 0]
              ELSE w
        w2 == IF w1.mediaStreamRef # 0
              THEN [w1 EXCEPT !.liveStreams = @ \ {w1.mediaStreamRef},
                              !.mediaStreamRef = 0]
              ELSE w1
        w3 == IF w2.audioContextRef # 0 /\ w2.audioContextRef \in w2.inCtxOpen
              THEN [w2 EXCEPT !.inCtxOpen = @ \ {w2.audioContextRef}]
              ELSE w2
        w4 == [w3 EXCEPT !.stoppedSources = @ \cup {x.id : x \in w3.audioSourcesRef},
                         !.audioSourcesRef = {},
                         !.nextAudioTimeRef = 0,
                         !.schedLog = <<>>]
    IN  IF w4.outputAudioContextRef # 0 /\ w4.outputAudioContextRef \in w4.outCtxOpen
        THEN [w4 EXCEPT !.outCtxOpen = @ \ {w4.outputAudioContextRef}]
        ELSE w4

SessCount(w) == Cardinality({s \in Sessions : w.sessState[s] # "none"})

\* useGeminiLive.ts:232-237 without the setConnectionState('error') of :234
connectNoCredential_NoErrorState(w) ==
    cleanupAudio(handleError(w, "Gemini API key is missing. Please configure it in Settings."))

\* useGeminiLive.ts:232-237
connectNoCredential(w) ==
    cleanupAudio([handleError(w, "Gemini API key is missing. Please configure it in Settings.")
                     EXCEPT !.connectionState = "error"])

\* useGeminiLive.ts:239-272: the output context, ai.live.connect and the await
connectOpen(w) ==
    LET s == SessCount(w) + 1
        c == w.outCtxCount + 1
    IN  [w EXCEPT !.outCtxCount = c,
                  !.outCtxOpen = @ \cup {c},
                  !.outputAudioContextRef = c,
                  !.now = 0,
                  !.sessState[s] = "pending",
                  !.sessProject[s] = w.project,
                  !.sessionPromiseRef = s,
                  !.sessThens[s] = << [Cb("connectCont", 0, "", "") EXCEPT !.sess = s] >>]

\* useGeminiLive.ts:218-272, up to the await of the handshake
connect(w, hasKey) ==
    IF ~w.project.present
    THEN [w EXCEPT !.connectionState = "idle"]
    ELSE LET w1 == cleanupAudio(resetTranscripts([w EXCEPT !.connectionState = "connecting"]))
         IN  IF hasKey THEN connectOpen(w1) ELSE connectNoCredential(w1)

\* useGeminiLive.ts:273: the continuation of the await when the handshake succeeded
connectResolved(w) == [w EXCEPT !.connectionState = "idle"]

\* useGeminiLive.ts:274-279 without the setConnectionState('error') of :277
connectRejected_NoErrorState(w) ==
    cleanupAudio(handleError(w, "Failed to connect to AI assistant."))

\* useGeminiLive.ts:274-279: the continuation when it failed
connectRejected(w) ==
    cleanupAudio([handleError(w, "Failed to connect to AI assistant.")
                     EXCEPT !.connectionState = "error"])

\* useGeminiLive.ts:263: the onclose callback of the session
onclose(w) == [w EXCEPT !.connectionState = "idle"]

\* useGeminiLive.ts:264-269: the onerror callback of the session
onerror(w) ==
    cleanupAudio([handleError(w, "Connection error. Please try again.")
                     EXCEPT !.connectionState = "error"])

\* useGeminiLive.ts:286-287 and 290-291: close the session if any, then cleanupAudio
disconnect(w) == cleanupAudio(thenSession(w, Cb("close", 0, "", "")))

\* useGeminiLive.ts:282-293: the cleanup of the previous run, then the body
lifecycleEffect(w, hasKey) ==
    LET w1 == disconnect(w)
    IN  IF w1.project.present THEN connect(w1, hasKey) ELSE disconnect(w1)

-----------------------------------------------------------------------------
(* AIAssistant: the transcript effect *)

\* AIAssistant.tsx:185-215, with the userTranscript and aiTranscript of the
\* render whose commit runs it
transcriptEffect(w, u, a) ==
    LET cur == w.messages
        has == Len(cur) > 0
        last == LastOf(cur)
        openOf(sender) == has /\ last.sender = sender /\ ~last.isFinal
    IN  IF u # ""
        THEN IF openOf("user")
             THEN [w EXCEPT !.messages = Append(ButLast(cur), [last EXCEPT !.text = u])]
             ELSE [w EXCEPT !.messages = Append(cur, Msg("user", u, FALSE))]
        ELSE IF a # ""
        THEN IF openOf("ai")
             THEN [w EXCEPT !.messages = Append(ButLast(cur), [last EXCEPT !.text = a])]
             ELSE IF openOf("user")
             THEN [w EXCEPT !.messages =
                      ButLast(cur) \o << [last EXCEPT !.isFinal = TRUE], Msg("ai", a, FALSE) >>]
             ELSE [w EXCEPT !.messages = Append(cur, Msg("ai", a, FALSE))]
        ELSE IF has /\ ~last.isFinal
        THEN [w EXCEPT !.messages = Append(ButLast(cur), [last EXCEPT !.isFinal = TRUE])]
        ELSE w

\* One React commit: the effects whose dependencies changed, in the order the
\* component declares them (the hook's lifecycle effect, AIAssistant.tsx:147,
\* before the transcript effect, AIAssistant.tsx:185).
commit(w, hasKey) ==
    LET u == w.userTranscript
        a == w.aiTranscript
        w1 == IF w.projectDirty
              THEN lifecycleEffect([w EXCEPT !.projectDirty = FALSE, !.rProject = w.project],
                                   hasKey)
              ELSE w
        w2 == IF u # w.rUser \/ a # w.rAi THEN transcriptEffect(w1, u, a) ELSE w1
    IN  [w2 EXCEPT !.rUser = u, !.rAi = a]

NeedsRender == projectDirty \/ userTranscript # rUser \/ aiTranscript # rAi

-----------------------------------------------------------------------------
(* useGeminiLive: processMessage, the serverContent branch *)

\* An optional field of an inbound payload: <<>> when absent, <<v>> when present.
None == <<>>
Some(v) == <<v>>
Has(o) == Len(o) > 0

\* useGeminiLive.ts:166-170 without the cursor reset of :169
interruptFlush_KeepsCursor(w) ==
    [w EXCEPT !.stoppedSources = @ \cup {x.id : x \in w.audioSourcesRef},
              !.audioSourcesRef = {},
              !.schedLog = <<>>]

\* useGeminiLive.ts:166-170
interruptFlush(w) ==
    [w EXCEPT !.stoppedSources = @ \cup {x.id : x \in w.audioSourcesRef},
              !.audioSourcesRef = {},
              !.nextAudioTimeRef = 0,
              !.schedLog = <<>>]

\* Math.max (useGeminiLive.ts:160)
Max(a, b) == IF a >= b THEN a ELSE b

\* useGeminiLive.ts:160 without the Math.max
startTimeOf_CursorOnly(currentTime, cursor) == cursor

\* useGeminiLive.ts:160
startTimeOf(currentTime, cursor) == Max(currentTime, cursor)

\* useGeminiLive.ts:156-164: the decoded chunk is scheduled on the output clock
scheduleChunk(w, dur) ==
    LET currentTime == w.now
        startTime == startTimeOf(currentTime, w.nextAudioTimeRef)
        id == w.srcCount + 1
        entry == [id |-> id, start |-> startTime, dur |-> dur,
                  now |-> currentTime, cursor |-> w.nextAudioTimeRef]
    IN  [w EXCEPT !.srcCount = id,
                  !.nextAudioTimeRef = startTime + dur,
                  !.audioSourcesRef = @ \cup {[id |-> id, start |-> startTime, dur |-> dur]},
                  !.schedLog = Append(@, entry)]

\* useGeminiLive.ts:166-173: what follows the audio block
afterAudio(w, m) ==
    LET w1 == IF m.interrupted
              THEN [interruptFlush(w) EXCEPT !.flushKey = Max(@, m.key)]
              ELSE w
    IN  IF m.turnComplete THEN resetTranscripts(w1) ELSE w1

\* useGeminiLive.ts:146-155: up to the await of the decode, or to the end when
\* the message has no audio or there is no output context
serverContent(w, m) ==
    LET w1 == IF Has(m.inputTranscription)
              THEN [w EXCEPT !.userTranscript = m.inputTranscription[1]] ELSE w
        w2 == IF Has(m.outputTranscription)
              THEN [w1 EXCEPT !.aiTranscript = m.outputTranscription[1]] ELSE w1
        mk == [m EXCEPT !.key = w.nMsgs + 1]
    IN  IF m.audio > 0 /\ w2.outputAudioContextRef # 0
        THEN [w2 EXCEPT !.decodes = @ \cup {mk}]
        ELSE afterAudio(w2, mk)

\* useGeminiLive.ts:156-173: the continuation once decodeAudioData has resolved
decoded(w, d) ==
    afterAudio(scheduleChunk([w EXCEPT !.decodes = @ \ {d}, !.srcKey = Append(@, d.key)],
                             d.audio), d)

-----------------------------------------------------------------------------
(* useGeminiLive: capture *)

\* useGeminiLive.ts:295-302: up to the await of getUserMedia
startListening(w) ==
    IF ~w.rProject.present THEN w
    ELSE LET c == w.inCtxCount + 1
         IN  [w EXCEPT !.inCtxCount = c, !.inCtxOpen = @ \cup {c},
                       !.audioContextRef = c, !.micPending = @ + 1]

\* useGeminiLive.ts:302-317: the continuation once getUserMedia has resolved
micGranted(w) ==
    LET st == w.streamCount + 1
        n == w.nodeCount + 1
    IN  [w EXCEPT !.micPending = @ - 1,
                  !.streamCount = st, !.liveStreams = @ \cup {st}, !.mediaStreamRef = st,
                  !.nodeCount = n, !.connectedNodes = @ \cup {n}, !.scriptProcessorRef = n,
                  !.isListening = TRUE]

\* useGeminiLive.ts:307-313: the onaudioprocess handler registered on node n
onaudioprocess(w, n) ==
    thenSession([w EXCEPT !.nCallbacks = @ + 1],
                Cb("audioChunk", n,
                   IF n \in w.connectedNodes THEN "connected" ELSE "disconnected", <<>>))

\* useGeminiLive.ts:320-333
stopListening(w) ==
    LET w1 == IF w.scriptProcessorRef # 0
              THEN [w EXCEPT !.connectedNodes = @ \ {w.scriptProcessorRef},
                             !.scriptProcessorRef = 0]
              ELSE w
        w2 == IF w1.mediaStreamRef # 0
              THEN [w1 EXCEPT !.liveStreams = @ \ {w1.mediaStreamRef},
                              !.mediaStreamRef = 0]
              ELSE w1
        w3 == IF w2.audioContextRef # 0 /\ w2.audioContextRef \in w2.inCtxOpen
              THEN [w2 EXCEPT !.inCtxOpen = @ \ {w2.audioContextRef}]
              ELSE w2
    IN  [w3 EXCEPT !.isListening = FALSE]

-----------------------------------------------------------------------------
(* useGeminiLive: processMessage, the toolCall branch, and the handlers of   *)
(* AIAssistant it calls                                                      *)

\* a || b on strings: the empty string and an absent field are falsy
Or(o, default) == IF Has(o) /\ o[1] # "" THEN o[1] ELSE default

\* crypto.randomUUID(): the n-th identifier generated
Uuid(n) == "uuid-" \o ToString(n)

\* the number of subtasks among the first i of sts that get a generated id
RECURSIVE GeneratedUpTo(_, _)
GeneratedUpTo(sts, i) ==
    IF i = 0 THEN 0
    ELSE GeneratedUpTo(sts, i - 1) + (IF Or(sts[i].id, "") = "" THEN 1 ELSE 0)

\* useGeminiLive.ts:181-193, with n identifiers generated before it
newTask(taskData, n) ==
    LET genId == Or(taskData.id, "") = ""
        n1 == IF genId THEN n + 1 ELSE n
        sts == IF Has(taskData.subtasks) THEN taskData.subtasks[1] ELSE <<>>
    IN  [id |-> IF genId THEN Uuid(n + 1) ELSE taskData.id[1],
         title |-> Or(taskData.title, "Untitled Task"),
         description |-> Or(taskData.description, ""),
         priority |-> Or(taskData.priority, "Medium"),
         timeEstimate |-> Or(taskData.timeEstimate, "N/A"),
         status |-> Or(taskData.status, "To Do"),
         subtasks |-> [i \in 1..Len(sts) |->
                          [id |-> IF Or(sts[i].id, "") = ""
                                  THEN Uuid(n1 + GeneratedUpTo(sts, i))
                                  ELSE sts[i].id[1],
                           text |-> Or(sts[i].text, "Unnamed subtask"),
                           completed |-> Has(sts[i].completed) /\ sts[i].completed[1]]]]

\* the identifiers newTask generates
UuidsUsed(taskData) ==
    LET sts == IF Has(taskData.subtasks) THEN taskData.subtasks[1] ELSE <<>>
    IN  (IF Or(taskData.id, "") = "" THEN 1 ELSE 0) + GeneratedUpTo(sts, Len(sts))

\* storageService.ts:20-29, for the one project of the model
saveProject_Skipped(w, p) == w

saveProject(w, p) == [w EXCEPT !.store = p.plan]

setProject(w, p) == [w EXCEPT !.project = p, !.projectDirty = TRUE]

\* AIAssistant.tsx:93-100; p is the project of the render that made the callback
handleTaskAdded(w, p, task) ==
    IF ~p.present THEN w
    ELSE LET updatedProject == [p EXCEPT !.plan = Append(p.plan, task)]
         IN  [setProject(saveProject(w, updatedProject), updatedProject)
                 EXCEPT !.messages = Append(@,
                     Msg("system", "Task \"" \o task.title \o "\" has been added to the plan.", TRUE))]

\* { ...task, ...updates } (AIAssistant.tsx:108)
Merge(task, updates) ==
    [task EXCEPT !.title = IF Has(updates.title) THEN updates.title[1] ELSE @,
                 !.description = IF Has(updates.description) THEN updates.description[1] ELSE @,
                 !.priority = IF Has(updates.priority) THEN updates.priority[1] ELSE @,
                 !.timeEstimate = IF Has(updates.timeEstimate) THEN updates.timeEstimate[1] ELSE @,
                 !.status = IF Has(updates.status) THEN updates.status[1] ELSE @]

\* the title the map of AIAssistant.tsx:105-111 (and :122-135) leaves in
\* taskTitle: that of the last task with the id, '' when there is none
RECURSIVE TitleOf(_, _, _)
TitleOf(plan, taskId, i) ==
    IF i = 0 THEN ""
    ELSE IF plan[i].id = taskId THEN plan[i].title
    ELSE TitleOf(plan, taskId, i - 1)

\* AIAssistant.tsx:102-116.  saveProjectThrows: localStorage.setItem raises
\* (quota); setProject has then run, saveProject and setMessages have not.
handleTaskEdited(w, p, taskId, updates, saveProjectThrows) ==
    IF ~p.present THEN w
    ELSE LET updatedPlan == [i \in 1..Len(p.plan) |->
                                IF p.plan[i].id = taskId
                                THEN Merge(p.plan[i], updates) ELSE p.plan[i]]
             updatedProject == [p EXCEPT !.plan = updatedPlan]
             w1 == setProject(w, updatedProject)
         IN  IF saveProjectThrows THEN w1
             ELSE [saveProject(w1, updatedProject)
                      EXCEPT !.messages = Append(@,
                          Msg("system", "Task \"" \o TitleOf(p.plan, taskId, Len(p.plan))
                                            \o "\" has been updated.", TRUE))]

RECURSIVE SubtaskTextOf(_, _, _, _, _)
SubtaskTextOf(plan, taskId, subtaskId, i, j) ==
    IF i = 0 THEN ""
    ELSE IF plan[i].id # taskId \/ j = 0
         THEN SubtaskTextOf(plan, taskId, subtaskId, i - 1,
                            IF i > 1 THEN Len(plan[i - 1].subtasks) ELSE 0)
    ELSE IF plan[i].subtasks[j].id = subtaskId THEN plan[i].subtasks[j].text
    ELSE SubtaskTextOf(plan, taskId, subtaskId, i, j - 1)

\* AIAssistant.tsx:118-140
handleSubtaskCompleted(w, p, taskId, subtaskId, saveProjectThrows) ==
    IF ~p.present THEN w
    ELSE LET updatedPlan == [i \in 1..Len(p.plan) |->
                                IF p.plan[i].id = taskId
                                THEN [p.plan[i] EXCEPT !.subtasks =
                                        [j \in 1..Len(@) |->
                                            IF @[j].id = subtaskId
                                            THEN [@[j] EXCEPT !.completed = TRUE]
                                            ELSE @[j]]]
                                ELSE p.plan[i]]
             updatedProject == [p EXCEPT !.plan = updatedPlan]
             w1 == setProject(w, updatedProject)
             n == Len(p.plan)
         IN  IF saveProjectThrows THEN w1
             ELSE [saveProject(w1, updatedProject)
                      EXCEPT !.messages = Append(@,
                          Msg("system",
                              "Subtask \""
                                \o SubtaskTextOf(p.plan, taskId, subtaskId, n,
                                                 IF n > 0 THEN Len(p.plan[n].subtasks) ELSE 0)
                                \o "\" in \"" \o TitleOf(p.plan, taskId, n)
                                \o "\" marked as complete.", TRUE))]

\* the result of a call that raised nothing (useGeminiLive.ts:176)
Success == "Function executed successfully."

\* useGeminiLive.ts:211-213: the response to the call func
respond_OnlyOnSuccess(w, func, result) ==
    IF result = Success
    THEN thenSession(w, Cb("toolResponse", func.id, func.name, result))
    ELSE w

respond(w, func, result) ==
    thenSession(w, Cb("toolResponse", func.id, func.name, result))

\* One iteration of the loop of useGeminiLive.ts:175-214 for the call func,
\* delivered by session s.  The handlers are those of the render that created
\* the session, so they read the project of that render (sessProject[s]).
\* func.subtasksNotArray: the subtasks argument has no map (:188 raises);
\* func.saveProjectThrows: localStorage.setItem raises inside the handler.
toolCallOne(w, s, func) ==
    LET p == w.sessProject[s]
        a == func.args
        isAdd == func.name = "add_task_to_plan" /\ a.present
        isEdit == ~isAdd /\ func.name = "edit_task_in_plan" /\ a.present
        isComplete == ~isAdd /\ ~isEdit /\ func.name = "complete_subtask" /\ a.present
        adds == isAdd /\ Has(a.task)
        edits == isEdit /\ Or(a.taskId, "") # ""
        mapThrows == adds /\ func.subtasksNotArray
        saveThrows == p.present /\ func.saveProjectThrows
                        /\ IF adds THEN ~mapThrows ELSE IF edits THEN TRUE ELSE isComplete
        \* the try block
        w1 == IF adds
              THEN LET w0 == [w EXCEPT !.uuidCount =
                                 IF mapThrows
                                 THEN @ + (IF Or(a.task[1].id, "") = "" THEN 1 ELSE 0)
                                 ELSE @ + UuidsUsed(a.task[1])]
                   IN  IF mapThrows \/ saveThrows THEN w0
                       ELSE handleTaskAdded(w0, p, newTask(a.task[1], w.uuidCount))
              ELSE IF edits
              THEN handleTaskEdited(w, p, a.taskId[1], a.updates, saveThrows)
              ELSE IF isComplete
              THEN handleSubtaskCompleted(w, p, Or(a.taskId, ""), Or(a.subtaskId, ""), saveThrows)
              ELSE w
        result == IF mapThrows
                  THEN "Error executing function " \o func.name \o ": taskData.subtasks.map is not a function"
                  ELSE IF saveThrows
                  THEN "Error executing function " \o func.name \o ": QuotaExceededError"
                  ELSE IF isAdd \/ isEdit \/ isComplete THEN Success
                  ELSE "Unknown function call: " \o func.name
        \* the catch block
        w2 == IF mapThrows \/ saveThrows THEN handleError(w1, result) ELSE w1
        \* the call as delivered, with the plan before and after it
        w3 == [w2 EXCEPT !.calls = Append(@, [func |-> func, sess |-> s,
                                              planBefore |-> w.project.plan,
                                              planAfter |-> w2.project.plan,
                                              uuidBefore |-> w.uuidCount,
                                              errorAfter |-> w2.error,
                                              storeAfter |-> w2.store,
                                              logBefore |-> w.messages,
                                              logAfter |-> w2.messages,
                                              result |-> result])]
    IN  respond(w3, func, result)

\* useGeminiLive.ts:174-215: the calls of one message, in order
RECURSIVE toolCall(_, _, _)
toolCall(w, s, funcs) ==
    IF funcs = <<>> THEN w
    ELSE toolCall(toolCallOne(w, s, Head(funcs)), s, Tail(funcs))

\* One callback of the microtask queue.
\* close: useGeminiLive.ts:286, :290; toolResponse: :211-213;
\* audioChunk: :310-312; connectCont: :273.  A send on a session that is no
\* longer open reaches nobody.
runCallback(w, c) ==
    IF c.kind = "connectCont" THEN connectResolved(w)
    ELSE IF c.kind = "close"
    THEN IF w.sessState[c.sess] = "open"
         THEN [w EXCEPT !.sessState[c.sess] = "closed", !.oncloseDue = @ \cup {c.sess}]
         ELSE w
    ELSE IF w.sessState[c.sess] # "open" THEN w
    ELSE IF c.kind = "toolResponse"
    THEN [w EXCEPT !.toolResponses = Append(@, [id |-> c.id, name |-> c.name,
                                                result |-> c.result, sess |-> c.sess])]
    ELSE IF c.kind = "audioChunk"
    THEN [w EXCEPT !.chunksSent = Append(@, [node |-> c.id, fired |-> c.name, sess |-> c.sess])]
    ELSE IF c.kind = "sendText"
    THEN [w EXCEPT !.textsSent = Append(@, [text |-> c.result, sess |-> c.sess])]
    ELSE w

\* useGeminiLive.ts:335-342, with the project of the render that created it
sendTextMessage(w, text) ==
    IF text # "" /\ w.rProject.present
    THEN thenSession(resetTranscripts(w), Cb("sendText", 0, "", text))
    ELSE w

\* String.prototype.trim on the texts of the model
Trim(text) == IF text = " " THEN "" ELSE text

\* AIAssistant.tsx:241-253 (stopDictation belongs to the dictation hook and
\* touches nothing of this state)
handleSendText(w, textInput) ==
    IF Trim(textInput) = "" THEN w
    ELSE LET w1 == [w EXCEPT !.messages = Append(@, Msg("user", textInput, TRUE))]
         IN  IF w1.rProject.present THEN sendTextMessage(w1, textInput) ELSE w1

-----------------------------------------------------------------------------
(* Inputs *)

\* serverContent messages: a chunk of audio (its duration; 0: none), with or
\* without the interruption flag
AudioMsgs ==
    {[inputTranscription |-> None, outputTranscription |-> None, audio |-> d,
      interrupted |-> i, turnComplete |-> FALSE, key |-> 0] :
        d \in 0..MaxDur, i \in BOOLEAN} \
    {[inputTranscription |-> None, outputTranscription |-> None, audio |-> 0,
      interrupted |-> FALSE, turnComplete |-> FALSE, key |-> 0]}

\* serverContent messages: transcript fragments and the turn-complete flag
TranscriptMsgs ==
    {[inputTranscription |-> u, outputTranscription |-> a, audio |-> 0,
      interrupted |-> FALSE, turnComplete |-> t, key |-> 0] :
        u \in {None, Some("Hel"), Some("Hello"), Some("")},
        a \in {None, Some("Hi"), Some("Hi there")},
        t \in BOOLEAN} \
    {[inputTranscription |-> None, outputTranscription |-> None, audio |-> 0,
      interrupted |-> FALSE, turnComplete |-> FALSE, key |-> 0]}

NoUpdates == [title |-> None, description |-> None, priority |-> None,
              timeEstimate |-> None, status |-> None]

NoArgs == [present |-> FALSE, task |-> None, taskId |-> None, subtaskId |-> None,
           updates |-> NoUpdates]

Func(name, args) ==
    [id |-> 0, name |-> name, args |-> args,
     subtasksNotArray |-> FALSE, saveProjectThrows |-> FALSE]

AddArgs(taskData) == [NoArgs EXCEPT !.present = TRUE, !.task = Some(taskData)]

EditArgs(taskId, updates) ==
    [NoArgs EXCEPT !.present = TRUE, !.taskId = taskId, !.updates = updates]

CompleteArgs(taskId, subtaskId) ==
    [NoArgs EXCEPT !.present = TRUE, !.taskId = taskId, !.subtaskId = subtaskId]

\* task arguments of add_task_to_plan
TaskDatas ==
    { \* what the schema requires, no id, no status
      [id |-> None, title |-> Some("C"), description |-> Some("dC"),
       priority |-> Some("Low"), timeEstimate |-> Some("3h"), status |-> None,
       subtasks |-> Some(<< >>)],
      \* everything supplied, one subtask without id and flag, one with
      [id |-> Some("t9"), title |-> Some("D"), description |-> Some("dD"),
       priority |-> Some("High"), timeEstimate |-> Some("4h"), status |-> Some("Done"),
       subtasks |-> Some(<< [id |-> None, text |-> Some("z"), completed |-> None],
                            [id |-> Some("s9"), text |-> Some("w"), completed |-> Some(TRUE)] >>)],
      \* nothing supplied but an empty title
      [id |-> None, title |-> Some(""), description |-> None,
       priority |-> None, timeEstimate |-> None, status |-> None,
       subtasks |-> None] }

\* the function calls a message can carry
Funcs ==
    {Func("add_task_to_plan", AddArgs(td)) : td \in TaskDatas}
    \cup {[Func("add_task_to_plan", AddArgs(td)) EXCEPT !.subtasksNotArray = TRUE] :
            td \in {x \in TaskDatas : x.id = None /\ x.status = None /\ Has(x.subtasks)}}
    \cup {Func("add_task_to_plan", [NoArgs EXCEPT !.present = TRUE])}
    \cup {Func("edit_task_in_plan", EditArgs(Some("t1"), [NoUpdates EXCEPT !.title = Some("A2")])),
          Func("edit_task_in_plan", EditArgs(Some("t2"), [NoUpdates EXCEPT !.status = Some("Done")])),
          Func("edit_task_in_plan", EditArgs(Some("t7"), [NoUpdates EXCEPT !.status = Some("Done")])),
          [Func("edit_task_in_plan", EditArgs(Some("t1"), [NoUpdates EXCEPT !.priority = Some("Low")]))
              EXCEPT !.saveProjectThrows = TRUE],
          Func("complete_subtask", CompleteArgs(Some("t1"), Some("s1"))),
          Func("complete_subtask", CompleteArgs(Some("t1"), Some("s7"))),
          Func("delete_task", [NoArgs EXCEPT !.present = TRUE]),
          Func("complete_subtask", NoArgs)}

\* what the text input holds when the user sends it
Texts == {"", " ", "go"}

\* the message that carries the longest chunk of audio and nothing else
PlainAudioMsgs == {m \in AudioMsgs : m.audio = MaxDur /\ ~m.interrupted}

\* the edit_task_in_plan calls whose handler raises nothing
EditCalls == {f \in Funcs : f.name = "edit_task_in_plan" /\ ~f.saveProjectThrows}

\* the batches of at most MaxBatch calls
RECURSIVE Batches(_)
Batches(n) ==
    IF n = 0 THEN {<< >>}
    ELSE LET shorter == Batches(n - 1)
         IN  shorter \cup {Append(b, f) : b \in {x \in shorter : Len(x) = n - 1}, f \in Funcs}

-----------------------------------------------------------------------------
(* The state after the component has mounted with no project selected      *)
(* (AIAssistant.tsx:226-230; the lifecycle effect's first run finds no      *)
(* session and nothing to clean up).                                        *)

Init ==
    /\ connectionState = "idle"
    /\ isListening = FALSE
    /\ userTranscript = ""
    /\ aiTranscript = ""
    /\ sessionPromiseRef = 0
    /\ audioContextRef = 0
    /\ mediaStreamRef = 0
    /\ scriptProcessorRef = 0
    /\ outputAudioContextRef = 0
    /\ nextAudioTimeRef = 0
    /\ audioSourcesRef = {}
    /\ sessState = [s \in Sessions |-> "none"]
    /\ sessThens = [s \in Sessions |-> << >>]
    /\ sessProject = [s \in Sessions |-> NoProject]
    /\ oncloseDue = {}
    /\ microtasks = << >>
    /\ decodes = {}
    /\ micPending = 0
    /\ inCtxOpen = {} /\ inCtxCount = 0
    /\ outCtxOpen = {} /\ outCtxCount = 0
    /\ liveStreams = {} /\ streamCount = 0
    /\ connectedNodes = {} /\ nodeCount = 0
    /\ stoppedSources = {} /\ srcCount = 0
    /\ endedSources = {}
    /\ nCallbacks = 0
    /\ now = 0
    /\ project = NoProject
    /\ projectDirty = FALSE
    /\ rProject = NoProject
    /\ rUser = "" /\ rAi = ""
    /\ messages = << WelcomeMsg >>
    /\ error = ""
    /\ store = StoredPlan
    /\ uuidCount = 0
    /\ toolResponses = << >>
    /\ chunksSent = << >>
    /\ textsSent = << >>
    /\ calls = << >>
    /\ schedLog = << >>
    /\ srcKey = << >>
    /\ flushKey = 0
    /\ lastOp = {}
    /\ nMsgs = 0
    /\ nNav = 0
    /\ run = NoRun

\* Every action is one task of the event loop: it starts with the microtask
\* queue empty.  Op(w, tags) commits w and records what the step did.
Idle == microtasks = << >>

Op(w, tags) ==
    Commit([w EXCEPT !.lastOp = tags,
                     !.run = IF "render" \in tags \/ "fragment" \in tags THEN @ ELSE NoRun])

-----------------------------------------------------------------------------
(* Actions *)

\* AIAssistant.tsx:219-225: a project id is selected and its project is loaded
LoadProject ==
    /\ Idle
    /\ ~project.present
    /\ nNav < MaxNav
    /\ Op([setProject(W, [present |-> TRUE, id |-> "p1", plan |-> store])
              EXCEPT !.messages = << WelcomeBackMsg >>, !.nNav = @ + 1], {"load"})

\* AIAssistant.tsx:226-230: the project id is cleared
UnloadProject ==
    /\ Idle
    /\ project.present
    /\ nNav < MaxNav
    /\ Op([setProject(W, NoProject) EXCEPT !.messages = << WelcomeMsg >>, !.nNav = @ + 1],
          {"unload"})

\* React renders and commits; hasKey: the settings hold a credential
\* (useGeminiLive.ts:227-230) when the lifecycle effect calls connect
Render(hasKey) ==
    /\ Idle
    /\ NeedsRender
    /\ (projectDirty /\ project.present /\ hasKey) => SessCount(W) < MaxSessions
    /\ Op(commit(W, hasKey),
          {"render"}
            \cup (IF projectDirty /\ project.present
                  THEN (IF hasKey THEN {"connect"} ELSE {"connect", "noCredential"})
                  ELSE {})
            \cup (IF projectDirty /\ ~project.present THEN {"disconnect"} ELSE {}))

\* the handshake of attempt s succeeds: its promise resolves and the callbacks
\* waiting on it become microtasks, in the order they were attached
HandshakeOk(s) ==
    /\ Idle
    /\ sessState[s] = "pending"
    /\ Op([W EXCEPT !.sessState[s] = "open",
                    !.microtasks = sessThens[s],
                    !.sessThens[s] = << >>], {"open"})

\* the handshake of attempt s fails: the await of useGeminiLive.ts:272 raises;
\* the callbacks attached with then alone never run
HandshakeFail(s) ==
    /\ Idle
    /\ sessState[s] = "pending"
    /\ Op(connectRejected([W EXCEPT !.sessState[s] = "rejected", !.sessThens[s] = << >>]),
          {"rejected"})

RunMicrotask ==
    /\ microtasks # << >>
    /\ Op(runCallback([W EXCEPT !.microtasks = Tail(@)], Head(microtasks)),
          {"microtask", Head(microtasks).kind})

\* the close event of a session closed by session.close(): useGeminiLive.ts:263
OnClose(s) ==
    /\ Idle
    /\ s \in oncloseDue
    /\ Op(onclose([W EXCEPT !.oncloseDue = @ \ {s}]), {"onclose"})

\* the remote side closes the transport of an open session: its close event
RemoteClose(s) ==
    /\ Idle
    /\ sessState[s] = "open"
    /\ Op(onclose([W EXCEPT !.sessState[s] = "closed"]), {"onclose", "remoteClose"})

\* the transport of an open session fails: its error event; the close event
\* of the failed transport follows
OnError(s) ==
    /\ Idle
    /\ sessState[s] = "open"
    /\ Op(onerror([W EXCEPT !.sessState[s] = "closed", !.oncloseDue = @ \cup {s}]),
          {"onerror"})

\* the log's last entry is an open entry of sender
OpenEntry(sender) ==
    /\ Len(messages) > 0
    /\ LastOf(messages).sender = sender
    /\ ~LastOf(messages).isFinal

\* the stream m is a partial fragment of: m carries a non-empty transcription
\* of that stream and nothing else
FragmentOf(m) ==
    IF m.audio > 0 \/ m.interrupted \/ m.turnComplete THEN "none"
    ELSE IF Or(m.inputTranscription, "") # "" /\ ~Has(m.outputTranscription) THEN "user"
    ELSE IF Or(m.outputTranscription, "") # "" /\ ~Has(m.inputTranscription) THEN "ai"
    ELSE "none"

\* the run after m: m continues the run of its stream, or starts one when the
\* log is up to date with everything received before and its open entry, if
\* any, is not of that stream
RunAfter(m) ==
    LET x == FragmentOf(m)
        t == IF x = "user" THEN m.inputTranscription[1] ELSE m.outputTranscription[1]
    IN  IF x = "none" THEN NoRun
        ELSE IF run.stream = x THEN [run EXCEPT !.text = t]
        ELSE IF ~NeedsRender /\ ~OpenEntry(x) THEN [stream |-> x, base |-> Len(messages), text |-> t]
        ELSE NoRun

\* an open session delivers a serverContent message
ServerContent(s, m) ==
    /\ Idle
    /\ sessState[s] = "open"
    /\ nMsgs < MaxMsgs
    /\ Op([serverContent(W, m) EXCEPT !.nMsgs = @ + 1, !.run = RunAfter(m)],
          {"message"}
            \cup (IF FragmentOf(m) # "none" THEN {"fragment"} ELSE {})
            \cup (IF m.audio > 0 /\ outputAudioContextRef # 0 THEN {"suspended"}
                  ELSE (IF m.interrupted THEN {"interrupted"} ELSE {})
                         \cup (IF m.turnComplete THEN {"turnComplete"} ELSE {})))

\* decodeAudioData resolves for a suspended processMessage
DecodeDone(d) ==
    /\ Idle
    /\ d \in decodes
    /\ Op(decoded(W, d),
          {"scheduled"}
            \cup (IF d.interrupted THEN {"interrupted"} ELSE {})
            \cup (IF d.turnComplete THEN {"turnComplete"} ELSE {}))

\* the output clock advances while its context runs
Tick ==
    /\ Idle
    /\ outputAudioContextRef \in outCtxOpen
    /\ now < MaxClock
    /\ Op([W EXCEPT !.now = @ + 1], {"tick"})

\* a scheduled source has played to its end: useGeminiLive.ts:164
SourceEnded(x) ==
    /\ Idle
    /\ x \in audioSourcesRef
    /\ outputAudioContextRef \in outCtxOpen
    /\ x.start + x.dur <= now
    /\ Op([W EXCEPT !.audioSourcesRef = @ \ {x}, !.endedSources = @ \cup {x.id}], {"ended"})

\* an open session delivers a toolCall message with the calls of batch
ToolCall(s, batch) ==
    /\ Idle
    /\ sessState[s] = "open"
    /\ nMsgs < MaxToolMsgs
    /\ LET funcs == [i \in 1..Len(batch) |-> [batch[i] EXCEPT !.id = Len(calls) + i]]
       IN  Op([toolCall(W, s, funcs) EXCEPT !.nMsgs = @ + 1], {"toolCall"})

\* the send button or the Enter key (AIAssistant.tsx:314, 329); the input is
\* enabled while not listening and connectionState is 'idle' (:317)
SendText(textInput) ==
    /\ Idle
    /\ ~isListening
    /\ connectionState = "idle"
    /\ Len(messages) - Len(SelectSeq(messages, LAMBDA x : x.sender # "user" \/ ~x.isFinal))
          < MaxTexts
    /\ Op(handleSendText(W, textInput),
          {"handleSendText"} \cup (IF Trim(textInput) = "" THEN {"emptyText"} ELSE {}))

StartListening ==
    /\ Idle
    /\ inCtxCount < MaxListens
    /\ Op(startListening(W), {"startListening"})

\* getUserMedia resolves
MicGranted ==
    /\ Idle
    /\ micPending > 0
    /\ Op(micGranted(W), {"micGranted"})

\* getUserMedia rejects: startListening ends at useGeminiLive.ts:302
MicDenied ==
    /\ Idle
    /\ micPending > 0
    /\ Op([W EXCEPT !.micPending = @ - 1], {"micDenied"})

\* the microphone button while listening (AIAssistant.tsx:338), or while the
\* microphone is being acquired
StopListening ==
    /\ Idle
    /\ isListening \/ micPending > 0
    /\ Op(stopListening(W), {"stopListening"})

\* the platform delivers an audioprocess event to the handler of node n; an
\* event queued before the node was disconnected is delivered after it
AudioProcess(n) ==
    /\ Idle
    /\ n \in 1..nodeCount
    /\ nCallbacks < MaxStray
    /\ Op(onaudioprocess(W, n), {"audioprocess"})

-----------------------------------------------------------------------------
(* Specifications *)

\* a project is opened and the session is established
Startup ==
    \/ LoadProject
    \/ \E hasKey \in BOOLEAN : Render(hasKey)
    \/ \E s \in Sessions : HandshakeOk(s)
    \/ RunMicrotask

\* the tool-call dispatcher
NextTool ==
    \/ Startup
    \/ \E s \in Sessions : OnClose(s)
    \/ \E s \in Sessions : \E b \in Batches(MaxBatch) \ {<< >>} : ToolCall(s, b)

SpecTool == Init /\ [][NextTool]_vars /\ WF_vars(RunMicrotask)

\* the playback scheduler
NextAudio ==
    \/ Startup
    \/ \E s \in Sessions : \E m \in AudioMsgs : ServerContent(s, m)
    \/ \E d \in decodes : DecodeDone(d)
    \/ Tick
    \/ \E x \in audioSourcesRef : SourceEnded(x)

SpecAudio == Init /\ [][NextAudio]_vars

\* the transcript accumulator
NextTranscript ==
    \/ Startup
    \/ \E s \in Sessions : \E m \in TranscriptMsgs : ServerContent(s, m)

SpecTranscript == Init /\ [][NextTranscript]_vars

\* text messages between the turns of a conversation
NextText ==
    \/ Startup
    \/ \E s \in Sessions : \E m \in TranscriptMsgs : ServerContent(s, m)
    \/ \E t \in Texts : SendText(t)

SpecText == Init /\ [][NextText]_vars

\* the capture pipeline
NextCapture ==
    \/ Startup
    \/ StartListening
    \/ MicGranted
    \/ MicDenied
    \/ StopListening
    \/ \E n \in 1..MaxListens : AudioProcess(n)

SpecCapture == Init /\ [][NextCapture]_vars

\* the connection manager
NextConnection ==
    \/ Startup
    \/ UnloadProject
    \/ \E s \in Sessions : HandshakeFail(s)
    \/ \E s \in Sessions : OnClose(s)

SpecConnection == Init /\ [][NextConnection]_vars

\* teardown of a session in use: the microphone, playback and tool calls that
\* change the project
NextTeardown ==
    \/ Startup
    \/ UnloadProject
    \/ StartListening
    \/ MicGranted
    \/ \E s \in Sessions : \E m \in PlainAudioMsgs : ServerContent(s, m)
    \/ \E d \in decodes : DecodeDone(d)
    \/ \E s \in Sessions : \E f \in EditCalls : ToolCall(s, << f >>)

\* microtasks run as soon as the running task ends, and a handshake that
\* can succeed eventually does
SpecTeardown ==
    /\ Init /\ [][NextTeardown]_vars
    /\ WF_vars(RunMicrotask)
    /\ \A s \in Sessions : WF_vars(HandshakeOk(s))

\* transport failures of a session in use
NextFailure ==
    \/ Startup
    \/ UnloadProject
    \/ StartListening
    \/ MicGranted
    \/ \E s \in Sessions : \E m \in PlainAudioMsgs : ServerContent(s, m)
    \/ \E d \in decodes : DecodeDone(d)
    \/ \E s \in Sessions : OnError(s)
    \/ \E s \in Sessions : RemoteClose(s)
    \/ \E s \in Sessions : OnClose(s)

SpecFailure == Init /\ [][NextFailure]_vars

\* the whole session
Next ==
    \/ NextTool
    \/ NextAudio
    \/ NextTranscript
    \/ NextCapture
    \/ NextConnection
    \/ NextTeardown
    \/ NextFailure
    \/ NextText

Spec == Init /\ [][Next]_vars

-----------------------------------------------------------------------------
(* Claims *)

MaxCalls == MaxToolMsgs * MaxBatch

\* the responses sent for the k-th call delivered
Answers(k) ==
    Cardinality({i \in 1..Len(toolResponses) : toolResponses[i].id = calls[k].func.id})

\* every response answers a delivered call, with its id and name, on the
\* session that delivered it, and no call has two
C1_Correlated ==
    /\ \A i \in 1..Len(toolResponses) :
          \E k \in 1..Len(calls) :
              /\ toolResponses[i].id = calls[k].func.id
              /\ toolResponses[i].name = calls[k].func.name
              /\ toolResponses[i].sess = calls[k].sess
              /\ toolResponses[i].result = calls[k].result
    /\ \A k \in 1..Len(calls) : Answers(k) <= 1

\* C1: every function call of every batch delivered by the session (known
\* names, unknown names, calls whose handler raises) is eventually answered by
\* exactly one tool response carrying its id and name; none is answered twice,
\* none is left unanswered.
C1_EveryCallAnsweredOnce ==
    /\ [] C1_Correlated
    /\ \A k \in 1..MaxCalls : (Len(calls) >= k) ~> (Len(calls) >= k /\ Answers(k) = 1)

\* a batch of two calls, one of which raised and one of which is unknown or
\* succeeded, has both its responses
C1_Witness ==
    /\ Len(calls) = 2
    /\ Len(toolResponses) = 2
    /\ calls[1].func.saveProjectThrows
    /\ calls[2].result # Success

\* the chunks scheduled since the last flush obey the rule of
\* useGeminiLive.ts:159-162
C2_Rule ==
    /\ \A i \in 1..Len(schedLog) :
          /\ schedLog[i].start = Max(schedLog[i].now, schedLog[i].cursor)
          /\ schedLog[i].start >= schedLog[i].now
    /\ \A i \in 1..(Len(schedLog) - 1) :
          schedLog[i + 1].cursor = schedLog[i].start + schedLog[i].dur
    /\ Len(schedLog) > 0 =>
          nextAudioTimeRef = LastOf(schedLog).start + LastOf(schedLog).dur

\* C2 as stated: of two chunks scheduled with no interruption or teardown
\* between them, the second starts where the first ends, and not before the
\* output clock's current time.
C2_Original ==
    /\ C2_Rule
    /\ \A i \in 1..(Len(schedLog) - 1) :
          schedLog[i + 1].start = schedLog[i].start + schedLog[i].dur

\* C2, amended: each chunk starts at max(output clock now, cursor) and the
\* cursor becomes start + duration; so of two chunks scheduled with no
\* interruption or teardown between them the second starts at the later of the
\* end of the first and the clock's current time: where the first ends when
\* the clock has not passed that point, at the clock's current time otherwise.
C2_Gapless ==
    /\ C2_Rule
    /\ \A i \in 1..(Len(schedLog) - 1) :
          LET end == schedLog[i].start + schedLog[i].dur
              nxt == schedLog[i + 1]
          IN  /\ nxt.now <= end => nxt.start = end
              /\ nxt.now > end => nxt.start = nxt.now

\* three chunks back to back, the last two starting ahead of the clock
C2_Witness ==
    /\ Len(schedLog) = 3
    /\ \A i \in 1..2 :
          /\ schedLog[i + 1].start = schedLog[i].start + schedLog[i].dur
          /\ schedLog[i + 1].start > schedLog[i + 1].now

\* C3: once a message with the interruption flag has been processed every unit
\* of the active playback set has been stopped, the set is empty and the
\* cursor is 0; the next chunk scheduled starts at the output clock's current
\* time, not at the cursor from before the interruption.
C3_InterruptionFlushes ==
    /\ "interrupted" \in lastOp =>
          /\ audioSourcesRef = {}
          /\ nextAudioTimeRef = 0
          /\ \A id \in 1..srcCount : id \in stoppedSources \cup endedSources
    /\ Len(schedLog) > 0 =>
          /\ schedLog[1].cursor = 0
          /\ schedLog[1].start = schedLog[1].now

\* a chunk scheduled after an interruption that stopped a chunk whose end lay
\* ahead of the clock
C3_Witness ==
    /\ "scheduled" \in lastOp
    /\ Len(schedLog) = 1
    /\ schedLog[1].now > 0
    /\ schedLog[1].start = schedLog[1].now
    /\ stoppedSources # {}
    /\ 1 \notin endedSources

\* C4: when a fragment of the ai stream has been received while the log's open
\* entry belongs to the user stream, the commit that follows makes the user
\* entry final, its text unchanged, and appends a non-final ai entry with the
\* fragment's text.
C4_HandOff ==
    [][ ( /\ "render" \in lastOp'
          /\ ~projectDirty
          /\ OpenEntry("user")
          /\ userTranscript = rUser
          /\ aiTranscript # rAi
          /\ aiTranscript # "" )
        => messages' = ButLast(messages)
                         \o << [LastOf(messages) EXCEPT !.isFinal = TRUE],
                               Msg("ai", aiTranscript, FALSE) >> ]_vars

\* C5: a run of consecutive fragments of one stream, nothing else received
\* between them, has added exactly one message to the log once it is
\* rendered: a non-final message of that stream with the latest fragment's
\* text.
C5_SameStreamMerge ==
    (run.stream # "none" /\ ~NeedsRender) =>
        /\ Len(messages) = run.base + 1
        /\ LastOf(messages) = Msg(run.stream, run.text, FALSE)

\* C6: no audio chunk is sent to the session for an audioprocess event that
\* fires after stopListening has disconnected the node.
C6_NoChunkAfterStop ==
    \A i \in 1..Len(chunksSent) : chunksSent[i].fired = "connected"

\* C7: connect with a project and no credential opens no transport, calls the
\* error callback with the configuration error and leaves connectionState
\* 'error'.
C7_NoCredentialFailsFast ==
    [][ "noCredential" \in lastOp'
        => /\ connectionState' = "error"
           /\ error' = "Gemini API key is missing. Please configure it in Settings."
           /\ sessState' = sessState
           /\ sessionPromiseRef' = sessionPromiseRef
           /\ outCtxCount' = outCtxCount ]_vars

\* a connect without credential that followed a session, and replaced the
\* error of a failed handshake
C7_Witness ==
    /\ "noCredential" \in lastOp
    /\ connectionState = "error"
    /\ error = "Gemini API key is missing. Please configure it in Settings."
    /\ \E s \in Sessions : sessState[s] # "none"

\* C8: once the disconnect routine has run, with a session or with none ever
\* opened and no handshake in progress, connectionState is 'idle'.
C8_DisconnectLeavesIdle ==
    ("disconnect" \in lastOp /\ \A s \in Sessions : sessState[s] # "pending") =>
        connectionState = "idle"

\* the other half of C8: one more run of the routine right after the first
\* changes nothing but the close requests queued for the session
C8_SecondRunChangesNothing ==
    "disconnect" \in lastOp =>
        [disconnect(W) EXCEPT !.microtasks = microtasks, !.sessThens = sessThens] = W

\* the fields of the task data that were supplied (an empty string counts as
\* omitted) are those of the task
SuppliedKept(td, t) ==
    /\ Or(td.title, "") # "" => t.title = td.title[1]
    /\ Or(td.description, "") # "" => t.description = td.description[1]
    /\ Or(td.priority, "") # "" => t.priority = td.priority[1]
    /\ Or(td.timeEstimate, "") # "" => t.timeEstimate = td.timeEstimate[1]
    /\ LET sts == IF Has(td.subtasks) THEN td.subtasks[1] ELSE << >>
       IN  /\ Len(t.subtasks) = Len(sts)
           /\ \A j \in 1..Len(sts) :
                 /\ t.subtasks[j].id # ""
                 /\ Or(sts[j].id, "") # "" => t.subtasks[j].id = sts[j].id[1]
                 /\ Or(sts[j].text, "") # "" => t.subtasks[j].text = sts[j].text[1]
                 /\ t.subtasks[j].completed \in BOOLEAN
                 /\ Has(sts[j].completed) => t.subtasks[j].completed = sts[j].completed[1]

\* C9: an add_task_to_plan call whose task omits id and status grows the plan
\* by exactly one task, appended, with a generated non-empty id, status
\* 'To Do', priority 'Medium' when omitted, generated ids for the subtasks
\* without one, and every supplied field as supplied.
C9_AddDefaults ==
    \A k \in 1..Len(calls) :
        LET e == calls[k]
            f == e.func
        IN  ( /\ f.name = "add_task_to_plan" /\ f.args.present /\ Has(f.args.task)
              /\ ~f.subtasksNotArray /\ ~f.saveProjectThrows
              /\ f.args.task[1].id = None /\ f.args.task[1].status = None )
            => /\ Len(e.planAfter) = Len(e.planBefore) + 1
               /\ SubSeq(e.planAfter, 1, Len(e.planBefore)) = e.planBefore
               /\ LET t == LastOf(e.planAfter)
                  IN  /\ t.id # ""
                      /\ \A i \in 1..Len(e.planBefore) : e.planBefore[i].id # t.id
                      /\ t.status = "To Do"
                      /\ f.args.task[1].priority = None => t.priority = "Medium"
                      /\ SuppliedKept(f.args.task[1], t)

\* C10: an edit_task_in_plan call whose taskId is that of a task of the plan
\* gives exactly the supplied fields of that task the supplied values and
\* leaves its other fields, every other task, and the order and length of the
\* plan as they were.
C10_EditPartial ==
    \A k \in 1..Len(calls) :
        LET e == calls[k]
            f == e.func
            u == f.args.updates
        IN  ( /\ f.name = "edit_task_in_plan" /\ f.args.present
              /\ Has(f.args.taskId)
              /\ \E i \in 1..Len(e.planBefore) : e.planBefore[i].id = f.args.taskId[1] )
            => /\ Len(e.planAfter) = Len(e.planBefore)
               /\ \A i \in 1..Len(e.planBefore) :
                     LET b == e.planBefore[i]
                         t == e.planAfter[i]
                     IN  IF b.id # f.args.taskId[1] THEN t = b
                         ELSE /\ t.id = b.id
                              /\ t.subtasks = b.subtasks
                              /\ t.title = (IF Has(u.title) THEN u.title[1] ELSE b.title)
                              /\ t.description =
                                    (IF Has(u.description) THEN u.description[1] ELSE b.description)
                              /\ t.priority = (IF Has(u.priority) THEN u.priority[1] ELSE b.priority)
                              /\ t.timeEstimate =
                                    (IF Has(u.timeEstimate) THEN u.timeEstimate[1] ELSE b.timeEstimate)
                              /\ t.status = (IF Has(u.status) THEN u.status[1] ELSE b.status)

\* the connection attempts whose transport is open or opening
Live == {s \in Sessions : sessState[s] \in {"pending", "open"}}

\* C11: at most one transport is open or opening at any time: once a task of
\* the event loop and its microtasks have run, a connection attempt that has
\* started is the only one whose transport is open or in its handshake.
C11_OneTransport ==
    Idle => Cardinality(Live) <= 1

\* the plan with the flag of subtask subtaskId of task taskId set
Completed(plan, taskId, subtaskId) ==
    [i \in 1..Len(plan) |->
        IF plan[i].id # taskId THEN plan[i]
        ELSE [plan[i] EXCEPT !.subtasks =
                 [j \in 1..Len(plan[i].subtasks) |->
                     IF plan[i].subtasks[j].id # subtaskId THEN plan[i].subtasks[j]
                     ELSE [plan[i].subtasks[j] EXCEPT !.completed = TRUE]]]]

\* C12: a complete_subtask call whose taskId and subtaskId are those of a
\* subtask of the plan leaves the plan as it was but for that subtask's
\* completed flag, which is true; a second such call leaves the plan as the
\* first left it.
C12_CompleteSubtask ==
    \A k \in 1..Len(calls) :
        LET e == calls[k]
            a == e.func.args
        IN  ( /\ e.func.name = "complete_subtask" /\ a.present
              /\ Has(a.taskId) /\ Has(a.subtaskId)
              /\ \E i \in 1..Len(e.planBefore) :
                    /\ e.planBefore[i].id = a.taskId[1]
                    /\ \E j \in 1..Len(e.planBefore[i].subtasks) :
                          e.planBefore[i].subtasks[j].id = a.subtaskId[1] )
            => /\ e.planAfter = Completed(e.planBefore, a.taskId[1], a.subtaskId[1])
               /\ (k < Len(calls) /\ calls[k + 1].func.name = e.func.name
                      /\ calls[k + 1].func.args = a)
                     => calls[k + 1].planAfter = e.planAfter

\* C13: a connect attempt that reaches the handshake leaves connectionState
\* 'connecting' and its channel opening; when the handshake succeeds the
\* continuation sets 'idle' and the channel is open; when the attempt fails,
\* for want of a credential or in the handshake, connectionState is 'error',
\* the error callback has been called with the failure, and the attempt has no
\* open channel.
C13_ConnectOutcome ==
    [][ /\ ("connect" \in lastOp' /\ "noCredential" \notin lastOp')
           => /\ connectionState' = "connecting"
              /\ sessionPromiseRef' # sessionPromiseRef
              /\ sessState'[sessionPromiseRef'] = "pending"
        /\ "connectCont" \in lastOp'
           => /\ connectionState' = "idle"
              /\ sessState'[Head(microtasks).sess] = "open"
        /\ "noCredential" \in lastOp'
           => /\ connectionState' = "error"
              /\ error' = "Gemini API key is missing. Please configure it in Settings."
              /\ sessionPromiseRef' = sessionPromiseRef
              /\ sessState' = sessState
        /\ "rejected" \in lastOp'
           => /\ connectionState' = "error"
              /\ error' = "Failed to connect to AI assistant."
              /\ \A s \in Sessions :
                    (sessState[s] = "pending" /\ sessState'[s] # "pending")
                       => sessState'[s] = "rejected" ]_vars

\* a handshake has failed after an earlier attempt had succeeded and its
\* session had been closed
C13_Witness ==
    /\ "rejected" \in lastOp
    /\ connectionState = "error"
    /\ error = "Failed to connect to AI assistant."
    /\ \E s \in Sessions : sessState[s] = "closed"
    /\ \E s \in Sessions : sessState[s] = "rejected"

\* the session of attempt s has been torn down: the project was cleared, or
\* another attempt has replaced it
TornDown(s) ==
    /\ sessState[s] # "none"
    /\ ~projectDirty
    /\ sessionPromiseRef # s \/ ~rProject.present

\* C14: the commit that tears the session down (the project was cleared or
\* has changed; unmounting runs the same cleanup) leaves the microphone stream
\* stopped and its handle null, the processing node disconnected and null,
\* every scheduled source stopped, the active set empty, the cursor 0 and the
\* output context it found closed; and the transport of a session torn down is
\* eventually closed.
C14_Teardown ==
    /\ [][ ("render" \in lastOp' /\ projectDirty)
           => /\ mediaStreamRef' = 0
              /\ mediaStreamRef # 0 => mediaStreamRef \notin liveStreams'
              /\ scriptProcessorRef' = 0
              /\ scriptProcessorRef # 0 => scriptProcessorRef \notin connectedNodes'
              /\ \A x \in audioSourcesRef : x.id \in stoppedSources'
              /\ audioSourcesRef' = {}
              /\ nextAudioTimeRef' = 0
              /\ outputAudioContextRef # 0 => outputAudioContextRef \notin outCtxOpen' ]_vars
    /\ \A s \in Sessions : TornDown(s) ~> (sessState[s] \notin {"pending", "open"})

\* the project has changed under a session that was capturing and playing:
\* its stream, node, source and output context were released and its
\* transport has been closed
C14_Witness ==
    /\ sessState[1] = "closed"
    /\ sessState[2] \in {"pending", "open"}
    /\ Len(calls) = 1
    /\ streamCount = 1 /\ liveStreams = {}
    /\ nodeCount = 1 /\ connectedNodes = {}
    /\ srcCount = 1 /\ stoppedSources = {1}
    /\ 1 \notin outCtxOpen

\* the names of the functions declared to the model (useGeminiLive.ts:258)
KnownNames == {"add_task_to_plan", "edit_task_in_plan", "complete_subtask"}

\* C15: a call whose name is none of the three declared leaves the plan as it
\* was, gets the result 'Unknown function call: <name>', and that message has
\* been passed to the error callback.
C15_UnknownFunction ==
    \A k \in 1..Len(calls) :
        LET e == calls[k]
        IN  e.func.name \notin KnownNames
            => /\ e.planAfter = e.planBefore
               /\ e.result = "Unknown function call: " \o e.func.name
               /\ e.errorAfter = e.result

\* the log has no non-final entry
AllFinal == \A i \in 1..Len(messages) : messages[i].isFinal

\* C16: once a message with the turn-complete flag has been processed, and
\* the commit that follows it if one is due, the log has no non-final entry
\* and both transcript buffers are empty.
C16_TurnComplete ==
    [][ /\ "turnComplete" \in lastOp'
           => /\ userTranscript' = "" /\ aiTranscript' = ""
              /\ ~NeedsRender' => AllFinal'
        /\ ("turnComplete" \in lastOp /\ "render" \in lastOp')
           => /\ userTranscript' = "" /\ aiTranscript' = ""
              /\ AllFinal' ]_vars

\* C17: of two chunks scheduled with no flush between them, the one whose
\* message was received first starts first, and has ended when the other
\* starts, whatever the order in which their decodes completed.
C17_ReceiptOrder ==
    \A i, j \in 1..Len(schedLog) :
        srcKey[schedLog[i].id] < srcKey[schedLog[j].id]
        => /\ schedLog[i].start < schedLog[j].start
           /\ schedLog[i].start + schedLog[i].dur <= schedLog[j].start

\* C18: once the interruption flag of a message has been processed, no source
\* is in the active set whose chunk came with that message or with one
\* received before it.
C18_NoResidualAudio ==
    \A x \in audioSourcesRef : srcKey[x.id] > flushKey

\* C19: the error event and the remote close of an established transport
\* call the error callback, set connectionState 'error' and release the
\* microphone, the processing node and the scheduled sources; after a
\* transport error connectionState becomes 'idle' again only when a connect
\* attempt succeeds.
C19_TransportFailure ==
    [][ /\ ("onerror" \in lastOp' \/ "remoteClose" \in lastOp')
           => /\ connectionState' = "error"
              /\ error' # ""
              /\ "onerror" \in lastOp' => error' = "Connection error. Please try again."
              /\ mediaStreamRef' = 0
              /\ mediaStreamRef # 0 => mediaStreamRef \notin liveStreams'
              /\ scriptProcessorRef' = 0
              /\ scriptProcessorRef # 0 => scriptProcessorRef \notin connectedNodes'
              /\ \A x \in audioSourcesRef : x.id \in stoppedSources'
              /\ audioSourcesRef' = {}
        /\ ( /\ connectionState = "error"
             /\ error = "Connection error. Please try again."
             /\ connectionState' = "idle" )
           => "connectCont" \in lastOp' ]_vars

\* the call of entry e of the call log raised in its handler
Throws(e) == e.func.saveProjectThrows \/ e.func.subtasksNotArray

\* what the handlers can raise
Raised == {"taskData.subtasks.map is not a function", "QuotaExceededError"}

\* the step that processes a message in which a call raises: the transport and
\* connectionState are as before, the call's result is an error description
\* that has been passed to the error callback, the calls after it are
\* executed, and a response is queued for every call of the message
C20_CaughtPerCall ==
    [][ "toolCall" \in lastOp'
        => LET new == (Len(calls) + 1)..Len(calls')
           IN  (\E k \in new : Throws(calls'[k]))
               => /\ sessState' = sessState
                  /\ connectionState' = connectionState
                  /\ sessionPromiseRef' = sessionPromiseRef
                  /\ \A k \in new :
                        LET e == calls'[k]
                        IN  /\ Throws(e)
                               => /\ e.result \in {"Error executing function " \o e.func.name
                                                      \o ": " \o r : r \in Raised}
                                  /\ e.errorAfter = e.result
                            /\ (~Throws(e) /\ e.func.name \in KnownNames /\ e.func.args.present)
                               => e.result = Success
                            /\ e.func = [Func("complete_subtask", CompleteArgs(Some("t1"), Some("s1")))
                                            EXCEPT !.id = e.func.id]
                               => e.planAfter = Completed(StoredPlan, "t1", "s1")
                            /\ \E i \in 1..Len(microtasks') :
                                  /\ microtasks'[i].kind = "toolResponse"
                                  /\ microtasks'[i].id = e.func.id
                                  /\ microtasks'[i].result = e.result ]_vars

\* C20: a call that raises is caught: its result is an error description
\* passed to the error callback, the later calls of the message are executed
\* and answered, and the transport that delivered it stays open with
\* connectionState unchanged.
C20_ThrowLeavesSessionOpen ==
    /\ C20_CaughtPerCall
    /\ [][ (calls # << >> /\ \A k \in 1..Len(calls) : Throws(calls[k]))
           => /\ sessState' = sessState
              /\ connectionState' = connectionState ]_vars

\* the plan has a task with this id
HasTask(plan, taskId) == \E i \in 1..Len(plan) : plan[i].id = taskId

\* the plan has a task with this id that has a subtask with this id
HasSubtask(plan, taskId, subtaskId) ==
    \E i \in 1..Len(plan) :
        /\ plan[i].id = taskId
        /\ \E j \in 1..Len(plan[i].subtasks) : plan[i].subtasks[j].id = subtaskId

\* the call of entry e has the arguments its function needs, and they name
\* something of the plan the call found
Applicable(e) ==
    LET a == e.func.args
    IN  /\ a.present
        /\ \/ e.func.name = "add_task_to_plan" /\ Has(a.task)
           \/ /\ e.func.name = "edit_task_in_plan"
              /\ Has(a.taskId) /\ HasTask(e.planBefore, a.taskId[1])
           \/ /\ e.func.name = "complete_subtask"
              /\ Has(a.taskId) /\ Has(a.subtaskId)
              /\ HasSubtask(e.planBefore, a.taskId[1], a.subtaskId[1])

\* C21: a call of one of the three functions whose arguments are malformed or
\* name no task or subtask of the plan does not get the success result, and
\* leaves the plan as it was.
C21_SuccessOnlyWhenApplied ==
    \A k \in 1..Len(calls) :
        LET e == calls[k]
        IN  (e.func.name \in KnownNames /\ ~Applicable(e))
            => /\ e.result # Success
               /\ e.planAfter = e.planBefore

\* C22: when microphone acquisition resolves for a startListening whose input
\* context stopListening or cleanupAudio has closed in the meantime, no
\* microphone stream stays open and no processing node is connected; and in
\* every state a microphone stream whose tracks run is the one mediaStreamRef
\* holds.
C22_NothingAfterCancel ==
    /\ [][ ( /\ "micGranted" \in lastOp'
             /\ micPending = 1
             /\ audioContextRef \notin inCtxOpen )
           => /\ liveStreams' = {}
              /\ connectedNodes' = {}
              /\ ~isListening' ]_vars
    /\ [](liveStreams \subseteq {mediaStreamRef})

\* C23: handleSendText with an empty text, or with no session, sends nothing
\* and queues nothing; with a text and a project it empties both transcript
\* buffers; and once the log is rendered every entry before a text message
\* the user sent is final.
C23_SendText ==
    /\ [][ "handleSendText" \in lastOp'
           => /\ ("emptyText" \in lastOp' \/ sessionPromiseRef = 0)
                 => /\ microtasks' = microtasks
                    /\ sessThens' = sessThens
                    /\ textsSent' = textsSent
              /\ ("emptyText" \notin lastOp' /\ rProject.present)
                 => userTranscript' = "" /\ aiTranscript' = "" ]_vars
    /\ [](~NeedsRender
          => \A i \in 1..Len(messages) :
                messages[i] = Msg("user", "go", TRUE)
                => \A j \in 1..(i - 1) : messages[j].isFinal)

\* the call of entry e reached its handler, and the handler returned
Handled(e) ==
    LET a == e.func.args
    IN  /\ e.result = Success
        /\ a.present
        /\ \/ e.func.name = "add_task_to_plan" /\ Has(a.task)
           \/ e.func.name = "edit_task_in_plan" /\ Or(a.taskId, "") # ""
           \/ e.func.name = "complete_subtask"

\* C24: when the handler of an add, edit or complete call has returned, the
\* plan stored under the project's id is the plan in memory, and the log has
\* exactly one more entry: a final system message, which for an added task
\* names its title.
C24_MutationPersisted ==
    \A k \in 1..Len(calls) :
        LET e == calls[k]
        IN  Handled(e)
            => /\ e.storeAfter = e.planAfter
               /\ Len(e.logAfter) = Len(e.logBefore) + 1
               /\ ButLast(e.logAfter) = e.logBefore
               /\ LastOf(e.logAfter).sender = "system"
               /\ LastOf(e.logAfter).isFinal
               /\ e.func.name = "add_task_to_plan"
                  => LastOf(e.logAfter).text =
                        "Task \"" \o LastOf(e.planAfter).title \o "\" has been added to the plan."

\* a message with an edit of a task of the plan and the completion of one of
\* its subtasks has been processed
C24_Witness ==
    /\ Len(calls) = 2
    /\ Handled(calls[1]) /\ Handled(calls[2])
    /\ calls[1].func.name = "edit_task_in_plan"
    /\ calls[1].planAfter # calls[1].planBefore
    /\ calls[2].func.name = "complete_subtask"
    /\ calls[2].planAfter # calls[2].planBefore
    /\ store = project.plan
    /\ store # StoredPlan

\* C25: while the connection attempt sessionPromiseRef holds is in its
\* handshake, connectionState is not 'idle'.
C25_ConnectingWhileHandshake ==
    (sessionPromiseRef # 0 /\ sessState[sessionPromiseRef] = "pending")
        => connectionState # "idle"

\* C26: isListening is true only while mediaStreamRef holds a stream whose
\* tracks run and scriptProcessorRef holds a connected node.
C26_ListeningHoldsMicrophone ==
    isListening
        => /\ mediaStreamRef # 0 /\ mediaStreamRef \in liveStreams
           /\ scriptProcessorRef # 0 /\ scriptProcessorRef \in connectedNodes

\* the call of entry e is well formed and its handler raises nothing
Valid(e) ==
    LET a == e.func.args
    IN  /\ a.present /\ ~e.func.saveProjectThrows /\ ~e.func.subtasksNotArray
        /\ \/ e.func.name = "add_task_to_plan" /\ Has(a.task)
           \/ e.func.name = "edit_task_in_plan" /\ Or(a.taskId, "") # ""
           \/ /\ e.func.name = "complete_subtask"
              /\ Or(a.taskId, "") # "" /\ Or(a.subtaskId, "") # ""

\* the plan after the mutation of entry e
Mutated(plan, e) ==
    LET a == e.func.args
    IN  IF e.func.name = "add_task_to_plan"
        THEN Append(plan, newTask(a.task[1], e.uuidBefore))
        ELSE IF e.func.name = "edit_task_in_plan"
        THEN [i \in 1..Len(plan) |->
                 IF plan[i].id = a.taskId[1] THEN Merge(plan[i], a.updates) ELSE plan[i]]
        ELSE Completed(plan, a.taskId[1], a.subtaskId[1])

\* the plan after the mutations of the entries from..to of log, in order
RECURSIVE MutatedBy(_, _, _, _)
MutatedBy(plan, log, from, to) ==
    IF from > to THEN plan
    ELSE MutatedBy(Mutated(plan, log[from]), log, from + 1, to)

\* C27: when a message of valid add, edit and complete calls has been
\* processed against the plan in memory, the plan in memory and the plan in
\* storage are that plan with the mutations of all its calls applied in
\* order.
C27_NoLostUpdate ==
    [][ ( /\ "toolCall" \in lastOp'
          /\ \A k \in (Len(calls) + 1)..Len(calls') :
                /\ Valid(calls'[k])
                /\ sessProject[calls'[k].sess] = project )
        => LET all == MutatedBy(project.plan, calls', Len(calls) + 1, Len(calls'))
           IN  /\ project'.plan = all
               /\ store' = all ]_vars

\* C28: the commit that follows function calls that all succeeded, the
\* project having been selected once and not since, leaves the transport
\* that delivered them as it was and still held by sessionPromiseRef,
\* connectionState unchanged, and the microphone stream, the processing node
\* and the scheduled sources untouched.
C28_CallLeavesSession ==
    [][ ( /\ "render" \in lastOp'
          /\ nNav = 1
          /\ calls # << >>
          /\ \A k \in 1..Len(calls) : calls[k].result = Success )
        => /\ sessState'[calls[1].sess] = sessState[calls[1].sess]
           /\ sessionPromiseRef' = sessionPromiseRef
           /\ connectionState' = connectionState
           /\ mediaStreamRef' = mediaStreamRef
           /\ liveStreams' = liveStreams
           /\ scriptProcessorRef' = scriptProcessorRef
           /\ connectedNodes' = connectedNodes
           /\ audioSourcesRef' = audioSourcesRef
           /\ stoppedSources' = stoppedSources
           /\ nextAudioTimeRef' = nextAudioTimeRef ]_vars

\* C29: every entry of the log but the last is final.
C29_OneOpenEntryLast ==
    \A i \in 1..(Len(messages) - 1) : messages[i].isFinal

\* C30: while there is no open output context (cleanupAudio has closed the one
\* outputAudioContextRef holds and connect has created no other), the active
\* set is empty and the cursor is 0.
C30_NothingScheduledAfterCleanup ==
    (outputAudioContextRef = 0 \/ outputAudioContextRef \notin outCtxOpen)
        => /\ audioSourcesRef = {}
           /\ nextAudioTimeRef = 0

====
